---- MODULE Spec2Model ----
(***************************************************************************)
(* Model of the SkyWalking trace collector, trace_collector.py:            *)
(*   _build_span_records    span hierarchy reconstruction (stages 1-3)     *)
(*   fetch_trace_summaries  paginated discovery of trace summaries         *)
(*   collect_traces         concurrent fetch, reconstruction, artifact     *)
(***************************************************************************)
EXTENDS Integers, Sequences, FiniteSets, TLC

\* ------------------------------------------------------------------ bounds
\* Longest raw span list handed to _build_span_records.
MaxSpans == 3

\* ------------------------------------------------------- optional values
\* Python's None, and a present value, as sequences of length 0 and 1.
None == <<>>
Some(v) == <<v>>
Val(o) == o[1]

Min(a, b) == IF a <= b THEN a ELSE b
Max(a, b) == IF a >= b THEN a ELSE b

\* ------------------------------------------------------- Python dict
\* A dict is the sequence of its <<key, value>> items in insertion order.
DictHas(d, k) == \E j \in 1..Len(d) : d[j][1] = k

DictGet(d, k, default) ==
    IF DictHas(d, k)
    THEN d[CHOOSE j \in 1..Len(d) : d[j][1] = k][2]
    ELSE default

\* d[k] = v : an existing key keeps its place, a new key goes last.
DictSet(d, k, v) ==
    IF DictHas(d, k)
    THEN [j \in 1..Len(d) |-> IF d[j][1] = k THEN <<k, v>> ELSE d[j]]
    ELSE Append(d, <<k, v>>)

\* d.setdefault(k, v)
DictSetDefault(d, k, v) == IF DictHas(d, k) THEN d ELSE Append(d, <<k, v>>)

DictKeys(d) == [j \in 1..Len(d) |-> d[j][1]]

SeqRange(s) == {s[j] : j \in 1..Len(s)}

\* [k for k, v in d.items() if v not in known]
RECURSIVE SelectKeys(_, _)
SelectKeys(d, known) ==
    IF d = <<>> THEN <<>>
    ELSE LET item == Head(d)
             rest == SelectKeys(Tail(d), known)
         IN  IF item[2] = None \/ ~DictHas(known, Val(item[2]))
             THEN <<item[1]>> \o rest
             ELSE rest

\* ------------------------------------------------------------- raw spans
\* f"{segment_id}:{span_id}": the separator and the integer span id make the
\* formatted string determine the pair, so the pair stands for the string.
NodeId(segment_id, span_id) == <<segment_id, span_id>>

Ref(seg, sid) == [parentSegmentId |-> seg, parentSpanId |-> sid]

RawSpan(seg, sid, psid, refs, svc) ==
    [segmentId |-> seg, spanId |-> sid, parentSpanId |-> psid,
     refs |-> refs, serviceCode |-> svc, _node_id |-> None]

\* The (parentSpanId, refs) combinations the backend is taken to send.
Links ==
    { <<Some(-1), <<>> >>,
      <<Some(0), <<>> >>,
      <<None, <<Ref(Some("A"), Some(1))>> >>,
      <<Some(-1), <<Ref(Some("A"), Some(1)), Ref(Some("B"), Some(0))>> >>,
      <<Some(0), <<Ref(Some("B"), Some(0))>> >>,
      <<Some(-1), <<Ref(None, Some(0)), Ref(Some("A"), Some(0))>> >> }

WellFormedIds == { <<"A", 0>>, <<"A", 1>>, <<"B", 0>> }

RawSpans ==
    { RawSpan(Some(id[1]), Some(id[2]), l[1], l[2], Some("svc")) :
        id \in WellFormedIds, l \in Links }
    \cup { RawSpan(None, Some(0), Some(-1), <<>>, Some("svc")),
           RawSpan(Some("A"), None, Some(0), <<>>, Some("svc")) }

SeqsUpTo(S, n) == UNION { [1..k -> S] : k \in 0..n }

VARIABLES
    spans,          \* the list handed to _build_span_records (dicts, mutated)
    nodes,          \* dict node_id -> index of the span stored under it
    parents,        \* dict node_id -> parent node id or None
    children,       \* dict node_id -> list of child node ids
    depths,         \* dict node_id -> depth
    queue,          \* BFS queue of <<node_id, depth>>
    roots,          \* list of root node ids
    span_records,   \* the SpanRecord list being returned
    bi,             \* index of the next span of the stage 2 loop
    bpc,            \* position inside _build_span_records
    \* fetch_trace_summaries
    backend,        \* the summaries the backend holds, in query order
    limit,          \* argument of fetch_trace_summaries
    page_size,      \* effective page size (line 305)
    page,           \* page number of the next query
    seen,           \* trace ids already taken
    summaries,      \* TraceSummary list being built
    total_available,
    queries,        \* the paging of every query issued, in order
    dret,           \* None, or the returned (summaries, total_available)
    dpc,            \* position inside fetch_trace_summaries
    \* collect_traces
    size,           \* argument of collect_traces
    max_workers,    \* argument of collect_traces
    c_summaries,    \* collect_traces' `summaries`
    futures,        \* per submitted summary: state and outcome of its fetch
    collected,      \* retained trace records
    services_seen,
    artifact,       \* None, or the payload written to the output file
    cerr,           \* None, or the exception leaving collect_traces
    cpc,            \* position inside collect_traces
    \* _post_graphql
    max_retries,    \* self.max_retries
    attempt,        \* loop variable of line 267
    posts,          \* outcome of every requests.post issued, in order
    waits,          \* argument of every time.sleep call, in order
    pret,           \* None, or the returned dict
    perr,           \* None, or the exception leaving _post_graphql
    ppc             \* position inside _post_graphql

buildVars == <<spans, nodes, parents, children, depths, queue, roots,
               span_records, bi, bpc>>

discoverVars == <<backend, limit, page_size, page, seen, summaries,
                  total_available, queries, dret, dpc>>

collectVars == <<size, max_workers, c_summaries, futures, collected,
                 services_seen, artifact, cerr, cpc>>

postVars == <<max_retries, attempt, posts, waits, pret, perr, ppc>>

vars == <<buildVars, discoverVars, collectVars, postVars>>

\* Not inside a call of the function.
BuildIdle ==
    /\ spans = <<>> /\ nodes = <<>> /\ parents = <<>> /\ children = <<>>
    /\ depths = <<>> /\ queue = <<>> /\ roots = <<>> /\ span_records = <<>>
    /\ bi = 0 /\ bpc = "idle"

DiscoverIdle ==
    /\ backend = <<>> /\ limit = 0 /\ page_size = 0 /\ page = 0 /\ seen = {}
    /\ summaries = <<>> /\ total_available = 0 /\ queries = <<>>
    /\ dret = None /\ dpc = "idle"

CollectIdle ==
    /\ size = 0 /\ max_workers = 0 /\ c_summaries = <<>> /\ futures = <<>>
    /\ collected = <<>> /\ services_seen = {} /\ artifact = None
    /\ cerr = None /\ cpc = "idle"

\* Default of the constructor's max_retries.
DefaultMaxRetries == 3

\* A collector configured with maxr attempts, outside _post_graphql.
ClientIdle(maxr) ==
    /\ max_retries = maxr /\ attempt = 0 /\ posts = <<>> /\ waits = <<>>
    /\ pret = None /\ perr = None /\ ppc = "idle"

PostIdle == ClientIdle(DefaultMaxRetries)

\* ------------------------------------------------- _build_span_records
\* The BFS of a list with a reachable cycle in `children` never ends, with
\* depths and the queue growing without bound. No terminating run over
\* MaxSpans spans reaches depth DepthCap or MaxQueue queued entries; past
\* them the model keeps a depth as DepthCap plus its parity and drops what
\* the queue cannot hold, so that the endless run is a loop of finitely many
\* states.
DepthCap == MaxSpans + 1
MaxQueue == 2 * MaxSpans

\* depth + 1 (line 449).
NextDepth(depth) == IF depth <= DepthCap THEN depth + 1 ELSE DepthCap

\* Stage 1 keeping a span without identifiers under a made-up node id.
RECURSIVE NormaliseKeepsMalformed(_, _, _, _)
NormaliseKeepsMalformed(sp, i, nd, ch) ==
    IF i > Len(sp) THEN [spans |-> sp, nodes |-> nd, children |-> ch]
    ELSE LET span == sp[i]
             node_id == IF span.segmentId = None \/ span.spanId = None
                        THEN NodeId("?", i)
                        ELSE NodeId(Val(span.segmentId), Val(span.spanId))
         IN  NormaliseKeepsMalformed([sp EXCEPT ![i]._node_id = Some(node_id)],
                                     i + 1, DictSet(nd, node_id, i),
                                     DictSetDefault(ch, node_id, <<>>))

\* Stage 1, lines 408-417, spans i..Len(sp).
RECURSIVE Normalise(_, _, _, _)
Normalise(sp, i, nd, ch) ==
    IF i > Len(sp) THEN [spans |-> sp, nodes |-> nd, children |-> ch]
    ELSE LET span == sp[i] IN
         IF span.segmentId = None \/ span.spanId = None
         THEN Normalise(sp, i + 1, nd, ch)
         ELSE LET node_id == NodeId(Val(span.segmentId), Val(span.spanId)) IN
              Normalise([sp EXCEPT ![i]._node_id = Some(node_id)], i + 1,
                        DictSet(nd, node_id, i),
                        DictSetDefault(ch, node_id, <<>>))

\* The refs consulted before the local parent.
ResolveParentRefsFirst(span) ==
    IF span.refs # <<>>
    THEN LET ref == span.refs[1] IN
         IF ref.parentSegmentId # None /\ ref.parentSpanId # None
         THEN Some(NodeId(Val(ref.parentSegmentId), Val(ref.parentSpanId)))
         ELSE None
    ELSE IF span.parentSpanId # None /\ Val(span.parentSpanId) >= 0
         THEN Some(NodeId(Val(span.segmentId), Val(span.parentSpanId)))
         ELSE None

\* Lines 424-436: the parent node of one span, or None.
ResolveParent(span) ==
    IF span.parentSpanId # None /\ Val(span.parentSpanId) >= 0
    THEN Some(NodeId(Val(span.segmentId), Val(span.parentSpanId)))
    ELSE IF span.refs # <<>>
         THEN LET ref == span.refs[1] IN
              IF ref.parentSegmentId # None /\ ref.parentSpanId # None
              THEN Some(NodeId(Val(ref.parentSegmentId), Val(ref.parentSpanId)))
              ELSE None
         ELSE None

\* A parent keeping only the first child that names it.
LinkChildFirstOnly(ch, parent_node, node_id) ==
    IF /\ parent_node # None
       /\ DictHas(ch, Val(parent_node))
       /\ DictGet(ch, Val(parent_node), <<>>) = <<>>
    THEN DictSet(ch, Val(parent_node), <<node_id>>)
    ELSE ch

\* Lines 438-439: the children dict after one span's parent is known.
LinkChild(ch, parent_node, node_id) ==
    IF parent_node # None /\ DictHas(ch, Val(parent_node))
    THEN DictSet(ch, Val(parent_node),
                 Append(DictGet(ch, Val(parent_node), <<>>), node_id))
    ELSE ch

\* Lines 421-439: `parents` and `children` after one span of stage 2.
RelateOne(span, par, ch) ==
    IF span._node_id = None
    THEN [parents |-> par, children |-> ch]
    ELSE LET node_id == Val(span._node_id)
             parent_node == ResolveParent(span)
         IN  [parents |-> DictSet(par, node_id, parent_node),
              children |-> LinkChild(ch, parent_node, node_id)]

\* Roots taken to be the parentless nodes only (`if parent is None`).
RECURSIVE ComputeRootsParentless(_, _)
ComputeRootsParentless(par, nd) ==
    IF par = <<>> THEN <<>>
    ELSE IF Head(par)[2] = None
         THEN <<Head(par)[1]>> \o ComputeRootsParentless(Tail(par), nd)
         ELSE ComputeRootsParentless(Tail(par), nd)

\* Line 443: the root list, in the insertion order of `parents`.
ComputeRoots(par, nd) == SelectKeys(par, nd)

\* Children queued at their parent's depth.
EnqueueChildrenSameDepth(q, kids, depth) ==
    LET grown == q \o [k \in 1..Len(kids) |-> <<kids[k], depth>>]
    IN  SubSeq(grown, 1, Min(Len(grown), MaxQueue))

\* Lines 448-449: the queue after the children of `current` are appended.
EnqueueChildren(q, kids, depth) ==
    LET grown == q \o [k \in 1..Len(kids) |-> <<kids[k], NextDepth(depth)>>]
    IN  SubSeq(grown, 1, Min(Len(grown), MaxQueue))

\* Line 444: every root queued at depth 0.
SeedQueue(rts) == [k \in 1..Len(rts) |-> <<rts[k], 0>>]

\* Lines 446-449: one iteration of `while queue`.
BfsVisit(q, dep, ch) ==
    LET current == q[1][1]
        depth == q[1][2]
    IN  [depths |-> DictSet(dep, current, depth),
         queue |-> EnqueueChildren(Tail(q), DictGet(ch, current, <<>>), depth)]

\* The record of a span the BFS never reached given the depth -1.
SpanRecordUnvisitedNegative(span, par, ch, dep) ==
    LET node_id == Val(span._node_id) IN
    [node_id |-> node_id,
     segment_id |-> span.segmentId,
     span_id |-> span.spanId,
     parent_span_id |-> span.parentSpanId,
     parent_node_id |-> DictGet(par, node_id, None),
     service_code |-> span.serviceCode,
     refs |-> span.refs,
     children_ids |-> DictGet(ch, node_id, <<>>),
     depth |-> DictGet(dep, node_id, -1)]

\* Lines 456-478: the record of one annotated span.
SpanRecord(span, par, ch, dep) ==
    LET node_id == Val(span._node_id) IN
    [node_id |-> node_id,
     segment_id |-> span.segmentId,
     span_id |-> span.spanId,
     parent_span_id |-> span.parentSpanId,
     parent_node_id |-> DictGet(par, node_id, None),
     service_code |-> span.serviceCode,
     refs |-> span.refs,
     children_ids |-> DictGet(ch, node_id, <<>>),
     depth |-> DictGet(dep, node_id, 0)]

\* Lines 451-479.
RECURSIVE Records(_, _, _, _)
Records(sp, par, ch, dep) ==
    IF sp = <<>> THEN <<>>
    ELSE IF Head(sp)._node_id = None
         THEN Records(Tail(sp), par, ch, dep)
         ELSE <<SpanRecord(Head(sp), par, ch, dep)>> \o Records(Tail(sp), par, ch, dep)

BuildInit(input) ==
    /\ spans = input
    /\ nodes = <<>>
    /\ parents = <<>>
    /\ children = <<>>
    /\ depths = <<>>
    /\ queue = <<>>
    /\ roots = <<>>
    /\ span_records = <<>>
    /\ bi = 1
    /\ bpc = "stage1"

\* Stage 1: normalise (lines 408-417).
BuildNormalise ==
    /\ bpc = "stage1"
    /\ LET r == Normalise(spans, 1, nodes, children) IN
       /\ spans' = r.spans
       /\ nodes' = r.nodes
       /\ children' = r.children
    /\ bi' = 1
    /\ bpc' = "stage2"
    /\ UNCHANGED <<parents, depths, queue, roots, span_records>>
    /\ UNCHANGED <<discoverVars, collectVars, postVars>>

\* Stage 2: one iteration of the relationships loop (lines 420-439).
BuildRelateStep ==
    /\ bpc = "stage2"
    /\ bi <= Len(spans)
    /\ LET r == RelateOne(spans[bi], parents, children) IN
       /\ parents' = r.parents
       /\ children' = r.children
    /\ bi' = bi + 1
    /\ UNCHANGED <<spans, nodes, depths, queue, roots, span_records, bpc>>
    /\ UNCHANGED <<discoverVars, collectVars, postVars>>

\* Stage 3 set-up: roots and the seeded queue (lines 442-444).
BuildSeedQueue ==
    /\ bpc = "stage2"
    /\ bi > Len(spans)
    /\ depths' = <<>>
    /\ roots' = ComputeRoots(parents, nodes)
    /\ queue' = SeedQueue(roots')
    /\ bpc' = "bfs"
    /\ UNCHANGED <<spans, nodes, parents, children, span_records, bi>>
    /\ UNCHANGED <<discoverVars, collectVars, postVars>>

\* One iteration of `while queue` (lines 445-449).
BfsStep ==
    /\ bpc = "bfs"
    /\ queue # <<>>
    /\ LET r == BfsVisit(queue, depths, children) IN
       /\ depths' = r.depths
       /\ queue' = r.queue
    /\ UNCHANGED <<spans, nodes, parents, children, roots, span_records, bi, bpc>>
    /\ UNCHANGED <<discoverVars, collectVars, postVars>>

\* The queue is empty: records are assembled and returned (lines 451-481).
BuildAssemble ==
    /\ bpc = "bfs"
    /\ queue = <<>>
    /\ span_records' = Records(spans, parents, children, depths)
    /\ bpc' = "done"
    /\ UNCHANGED <<spans, nodes, parents, children, depths, queue, roots, bi>>
    /\ UNCHANGED <<discoverVars, collectVars, postVars>>

BuildNext ==
    \/ BuildNormalise
    \/ BuildRelateStep
    \/ BuildSeedQueue
    \/ BfsStep
    \/ BuildAssemble

\* _build_span_records called on every raw span list up to MaxSpans spans.
InitBuild ==
    /\ \E input \in SeqsUpTo(RawSpans, MaxSpans) : BuildInit(input)
    /\ DiscoverIdle
    /\ CollectIdle
    /\ PostIdle

\* The whole call as a value, for callers: the records and roots returned
\* for `input`. Defined where the BFS ends.
RECURSIVE RelateAll(_, _, _, _)
RelateAll(sp, i, par, ch) ==
    IF i > Len(sp) THEN [parents |-> par, children |-> ch]
    ELSE LET r == RelateOne(sp[i], par, ch)
         IN  RelateAll(sp, i + 1, r.parents, r.children)

RECURSIVE BfsRun(_, _, _)
BfsRun(q, dep, ch) ==
    IF q = <<>> THEN dep
    ELSE LET r == BfsVisit(q, dep, ch) IN BfsRun(r.queue, r.depths, ch)

BuildSpanRecords(input) ==
    LET n == Normalise(input, 1, <<>>, <<>>)
        rel == RelateAll(n.spans, 1, <<>>, n.children)
        rts == ComputeRoots(rel.parents, n.nodes)
        dep == BfsRun(SeedQueue(rts), <<>>, rel.children)
    IN  [span_records |-> Records(n.spans, rel.parents, rel.children, dep),
         roots |-> rts]

SpecBuild == InitBuild /\ [][BuildNext]_vars

\* The call runs to its return unless its loop never ends.
FairSpecBuild == SpecBuild /\ WF_vars(BuildNext)

BuildDone == bpc = "done"

\* ------------------------------------------------------- _post_graphql
\* Bound of the configured attempt count.
MaxRetries == 5

\* What makes one attempt fail inside the try block (lines 269-277):
\* requests.post raises, raise_for_status raises, resp.json raises, or the
\* decoded body holds an "errors" key.
Failures == {"network", "status", "decode", "errors"}

Failed(cause) == [ok |-> FALSE, cause |-> cause, data |-> None]

\* A 2xx answer without "errors"; `data` is its "data" member or None.
Answered(data) == [ok |-> TRUE, cause |-> "", data |-> data]

Responses ==
    {Failed(c) : c \in Failures} \cup {Answered(Some("data")), Answered(None)}

EmptyDict == "{}"

\* Line 278: data.get("data") or {}.
Decoded(resp) == IF resp.data # None THEN Val(resp.data) ELSE EmptyDict

\* The wait without its ceiling.
BackoffWaitUncapped(k) == 3 * k

\* Line 280.
BackoffWait(k) == Min(3 * k, 10)

\* Line 281.
LastAttempt(k, maxr) == k = maxr

\* The error raised without the exception that caused it.
RaisedErrorNoCause(k, exc) == [attempts |-> k, cause |-> "unknown"]

\* Line 282: RuntimeError(... {attempt} attempts: {exc}) from exc.
RaisedError(k, exc) == [attempts |-> k, cause |-> exc]

\* Lines 263-267: the call's state before the first attempt.
PostCall(maxr) ==
    /\ max_retries = maxr
    /\ attempt = 1
    /\ posts = <<>>
    /\ waits = <<>>
    /\ pret = None
    /\ perr = None
    /\ ppc = "loop"

\* Lines 268-278: the attempt is answered and its result returned.
PostSucceeds ==
    /\ ppc = "loop"
    /\ attempt <= max_retries
    /\ \E resp \in Responses :
          /\ resp.ok
          /\ posts' = Append(posts, resp)
          /\ pret' = Some(Decoded(resp))
    /\ ppc' = "returned"
    /\ UNCHANGED <<max_retries, attempt, waits, perr>>

\* Lines 268-290: the attempt fails before the last one, the call sleeps and
\* the loop goes to the next attempt.
PostFailsRetry ==
    /\ ppc = "loop"
    /\ attempt <= max_retries
    /\ ~LastAttempt(attempt, max_retries)
    /\ \E resp \in Responses :
          /\ ~resp.ok
          /\ posts' = Append(posts, resp)
    /\ waits' = Append(waits, BackoffWait(attempt))
    /\ attempt' = attempt + 1
    /\ UNCHANGED <<max_retries, pret, perr, ppc>>

\* Lines 268-282: the last attempt fails and the error is raised.
PostFailsRaise ==
    /\ ppc = "loop"
    /\ attempt <= max_retries
    /\ LastAttempt(attempt, max_retries)
    /\ \E resp \in Responses :
          /\ ~resp.ok
          /\ posts' = Append(posts, resp)
          /\ perr' = Some(RaisedError(attempt, resp.cause))
    /\ ppc' = "raised"
    /\ UNCHANGED <<max_retries, attempt, waits, pret>>

\* The exhausted range raising instead of returning.
PostLoopEndsRaises ==
    /\ ppc = "loop"
    /\ attempt > max_retries
    /\ perr' = Some(RaisedError(0, "none"))
    /\ ppc' = "raised"
    /\ UNCHANGED <<max_retries, attempt, posts, waits, pret>>

\* Line 291: range(1, max_retries + 1) is exhausted.
PostLoopEnds ==
    /\ ppc = "loop"
    /\ attempt > max_retries
    /\ pret' = Some(EmptyDict)
    /\ ppc' = "returned"
    /\ UNCHANGED <<max_retries, attempt, posts, waits, perr>>

PostNext ==
    \/ PostSucceeds /\ UNCHANGED <<buildVars, discoverVars, collectVars>>
    \/ PostFailsRetry /\ UNCHANGED <<buildVars, discoverVars, collectVars>>
    \/ PostFailsRaise /\ UNCHANGED <<buildVars, discoverVars, collectVars>>
    \/ PostLoopEnds /\ UNCHANGED <<buildVars, discoverVars, collectVars>>

\* _post_graphql called under every configured attempt count of the bound.
InitPost ==
    /\ \E maxr \in -1..MaxRetries : PostCall(maxr)
    /\ BuildIdle
    /\ DiscoverIdle
    /\ CollectIdle

SpecPost == InitPost /\ [][PostNext]_vars

PostEnded == ppc \in {"returned", "raised"}

\* ------------------------------------------ properties of _post_graphql
AllFailed(ps) == \A k \in 1..Len(ps) : ~ps[k].ok

\* C14: a query call configured with at least one attempt issues at most
\* max_retries requests, returns the decoded result of the first request that
\* succeeds and issues none after it, and when every request failed it raises
\* an error carrying the cause of the last one.
C14_BoundedRetries ==
    max_retries >= 1 =>
        /\ Len(posts) <= max_retries
        /\ AllFailed(SubSeq(posts, 1, Len(posts) - 1))
        /\ ppc = "loop" => AllFailed(posts) /\ pret = None /\ perr = None
        /\ ppc = "returned" =>
              /\ posts # <<>>
              /\ posts[Len(posts)].ok
              /\ pret = Some(Decoded(posts[Len(posts)]))
              /\ perr = None
        /\ ppc = "raised" =>
              /\ posts # <<>>
              /\ AllFailed(posts)
              /\ pret = None
              /\ perr # None
              /\ Val(perr).cause = posts[Len(posts)].cause
        /\ (PostEnded /\ AllFailed(posts)) => ppc = "raised"

\* Three attempts failing for different reasons: the error names the third.
C14_Witness ==
    /\ ppc = "raised"
    /\ max_retries = 3
    /\ Len(posts) = 3
    /\ posts[1].cause = "network"
    /\ posts[2].cause = "status"
    /\ posts[3].cause = "errors"
    /\ Val(perr).cause = "errors"

\* C15: the k-th sleep of a query call, taken after failed attempt k and
\* before attempt k + 1, lasts min(3k, 10): the waits never decrease, never
\* exceed 10, and no sleep follows the failed attempt that ends the call.
C15_BackoffWaits ==
    /\ \A k \in 1..Len(waits) :
          /\ waits[k] = IF 3 * k < 10 THEN 3 * k ELSE 10
          /\ waits[k] <= 10
    /\ \A k \in 1..Len(waits) - 1 : waits[k] <= waits[k + 1]
    /\ ppc = "loop" => Len(waits) = Len(posts)
    /\ (PostEnded /\ posts # <<>>) => Len(waits) = Len(posts) - 1
    /\ (PostEnded /\ posts = <<>>) => waits = <<>>

\* Five failed attempts: waits of 3, 6, 9 and 10, none after the fifth.
C15_Witness ==
    /\ ppc = "raised"
    /\ Len(posts) = 5
    /\ waits = <<3, 6, 9, 10>>

\* ------------------------------------------------ fetch_trace_summaries
\* Bounds of the discovery model.
MaxBackend == 4
MaxLimit == 3
MaxPageSize == 3

\* One element of the backend's `traces` list (lines 143-149).
Entry(trace_ids) == [traceIds |-> trace_ids]

Entries == { Entry(<<"t1">>), Entry(<<"t2">>), Entry(<<"t3", "t1">>), Entry(<<>>) }

\* Lines 371-379.
TraceSummary(trace_id) == [trace_id |-> trace_id]

\* Line 305.
EffectivePageSize(page_size_arg, lim) ==
    Max(1, Min(page_size_arg, IF lim > 0 THEN lim ELSE page_size_arg))

\* The backend serves its summaries as consecutive slices: page pageNum of
\* pageSize entries (lines 339-342), and reports how many it holds.
BackendPage(be, pageNum, pageSize) ==
    SubSeq(be, Min((pageNum - 1) * pageSize, Len(be)) + 1, Min(pageNum * pageSize, Len(be)))

BackendTotal(be) == Len(be)

\* The size check taken one summary early.
LimitReachedEarly(lim, sums) == lim # 0 /\ Len(sums) + 1 >= lim

\* The size check never taken.
LimitReachedNever(lim, sums) == FALSE

\* `limit and len(summaries) >= limit` (lines 327, 381).
LimitReached(lim, sums) == lim # 0 /\ Len(sums) >= lim

\* The identifier never recorded as seen.
MarkSeenNever(sn, trace_id) == sn

\* Line 360.
MarkSeen(sn, trace_id) == sn \cup {trace_id}

\* Lines 353-382: the entries i.. of one page taken into summaries and seen.
RECURSIVE TakeEntries(_, _, _, _, _)
TakeEntries(traces, i, sums, sn, lim) ==
    IF i > Len(traces) THEN [summaries |-> sums, seen |-> sn]
    ELSE LET trace_ids == traces[i].traceIds IN
         IF trace_ids = <<>> THEN TakeEntries(traces, i + 1, sums, sn, lim)
         ELSE LET trace_id == trace_ids[1] IN
              IF trace_id \in sn THEN TakeEntries(traces, i + 1, sums, sn, lim)
              ELSE LET sums2 == Append(sums, TraceSummary(trace_id))
                       sn2 == MarkSeen(sn, trace_id)
                   IN  IF LimitReached(lim, sums2)
                       THEN [summaries |-> sums2, seen |-> sn2]
                       ELSE TakeEntries(traces, i + 1, sums2, sn2, lim)

\* s[:n]
PySliceTo(s, n) ==
    IF n >= 0 THEN SubSeq(s, 1, Min(n, Len(s)))
    ELSE SubSeq(s, 1, Max(Len(s) + n, 0))

\* Line 388.
ReturnedSummaries(sums, lim) == IF lim # 0 THEN PySliceTo(sums, lim) ELSE sums

\* Lines 305, 321-325: the call's locals before the first iteration.
DiscoverCall(lim, page_size_arg, be) ==
    /\ backend = be
    /\ limit = lim
    /\ page_size = EffectivePageSize(page_size_arg, lim)
    /\ page = 1
    /\ seen = {}
    /\ summaries = <<>>
    /\ total_available = 0
    /\ queries = <<>>
    /\ dret = None
    /\ dpc = "loop"

\* The iteration with the short-page check of line 384 left out: the loop
\* goes on until a page comes back empty.
DiscoverQueryUntilEmpty ==
    /\ dpc = "loop"
    /\ ~LimitReached(limit, summaries)
    /\ queries' = Append(queries, [pageNum |-> page, pageSize |-> page_size])
    /\ LET traces == BackendPage(backend, page, page_size)
           taken == TakeEntries(traces, 1, summaries, seen, limit)
       IN  /\ total_available' = BackendTotal(backend)
           /\ IF traces = <<>>
              THEN /\ dpc' = "break"
                   /\ UNCHANGED <<summaries, seen, page>>
              ELSE /\ summaries' = taken.summaries
                   /\ seen' = taken.seen
                   /\ dpc' = "loop"
                   /\ page' = page + 1
    /\ UNCHANGED <<backend, limit, page_size, dret>>

\* One iteration of `while True` whose query is answered (lines 327-386).
DiscoverQuery ==
    /\ dpc = "loop"
    /\ ~LimitReached(limit, summaries)
    /\ queries' = Append(queries, [pageNum |-> page, pageSize |-> page_size])
    /\ LET traces == BackendPage(backend, page, page_size)
           taken == TakeEntries(traces, 1, summaries, seen, limit)
       IN  /\ total_available' = BackendTotal(backend)
           /\ IF traces = <<>>
              THEN /\ dpc' = "break"
                   /\ UNCHANGED <<summaries, seen, page>>
              ELSE /\ summaries' = taken.summaries
                   /\ seen' = taken.seen
                   /\ IF Len(traces) < page_size
                      THEN dpc' = "break" /\ page' = page
                      ELSE dpc' = "loop" /\ page' = page + 1
    /\ UNCHANGED <<backend, limit, page_size, dret>>

\* The query fails after its retries: the error leaves the call (line 345).
DiscoverQueryFails ==
    /\ dpc = "loop"
    /\ ~LimitReached(limit, summaries)
    /\ queries' = Append(queries, [pageNum |-> page, pageSize |-> page_size])
    /\ dpc' = "raised"
    /\ UNCHANGED <<backend, limit, page_size, page, seen, summaries,
                   total_available, dret>>

\* A `break` was taken, at the loop top (line 327) or below: line 388.
DiscoverReturn ==
    /\ dpc \in {"loop", "break"}
    /\ dpc = "loop" => LimitReached(limit, summaries)
    /\ dret' = Some(<<ReturnedSummaries(summaries, limit), total_available>>)
    /\ dpc' = "returned"
    /\ UNCHANGED <<backend, limit, page_size, page, seen, summaries,
                   total_available, queries>>

DiscoverStep == DiscoverQuery \/ DiscoverQueryFails \/ DiscoverReturn

DiscoverNext ==
    \/ DiscoverQuery /\ UNCHANGED <<buildVars, collectVars, postVars>>
    \/ DiscoverQueryFails /\ UNCHANGED <<buildVars, collectVars, postVars>>
    \/ DiscoverReturn /\ UNCHANGED <<buildVars, collectVars, postVars>>

\* fetch_trace_summaries called with every limit and page size of the bounds
\* against every backend content.
InitDiscover ==
    /\ \E lim \in -1..MaxLimit, psz \in 0..MaxPageSize,
          be \in SeqsUpTo(Entries, MaxBackend) : DiscoverCall(lim, psz, be)
    /\ BuildIdle
    /\ CollectIdle
    /\ PostIdle

SpecDiscover == InitDiscover /\ [][DiscoverNext]_vars

\* The call is one sequential run: it takes its next step while it has one.
FairSpecDiscover == SpecDiscover /\ WF_vars(DiscoverNext)

DiscoverEnded == dpc \in {"returned", "raised"}

DiscoverReturned == dpc = "returned"

\* ----------------------------------------- properties of discovery
\* C10: the list discover returns never holds two summaries with the same
\* trace identifier, whatever identifiers the pages repeat.
C10_NoDuplicateSummaries ==
    DiscoverReturned =>
        LET ret == Val(dret)[1] IN
        \A i, j \in 1..Len(ret) : i # j => ret[i].trace_id # ret[j].trace_id

\* An identifier served on two pages, and twice on one page, returned once.
C10_Witness ==
    /\ DiscoverReturned
    /\ Len(queries) >= 2
    /\ \E i, j \in 1..Len(backend) :
          /\ backend[i].traceIds # <<>> /\ backend[j].traceIds # <<>>
          /\ backend[i].traceIds[1] = backend[j].traceIds[1]
          /\ (i - 1) \div page_size # (j - 1) \div page_size
          /\ j <= Len(queries) * page_size
          /\ i < j
    /\ \E i \in 1..Len(backend) - 1 :
          /\ backend[i] = backend[i + 1] /\ backend[i].traceIds # <<>>
          /\ (i - 1) \div page_size = i \div page_size
          /\ i + 1 <= Len(queries) * page_size
    /\ Len(Val(dret)[1]) >= 2

\* The trace identifiers the backend holds: the first id of each entry.
BackendIds(be) ==
    {be[i].traceIds[1] : i \in {j \in 1..Len(be) : be[j].traceIds # <<>>}}

ReturnedIds == {Val(dret)[1][k].trace_id : k \in 1..Len(Val(dret)[1])}

\* The page the last query of the call was answered with.
LastPage ==
    BackendPage(backend, queries[Len(queries)].pageNum, queries[Len(queries)].pageSize)

\* C11: with a limit of zero or below, discover pages until the backend
\* answers a short or empty page, never stops on the size check, and returns
\* every distinct summary the backend holds.
C11_NonPositiveLimitUnbounded ==
    (DiscoverReturned /\ limit <= 0) =>
        /\ queries # <<>>
        /\ Len(LastPage) < page_size
        /\ ReturnedIds = BackendIds(backend)
        /\ Len(Val(dret)[1]) = Cardinality(BackendIds(backend))

\* The part of C11 the code keeps: a limit of exactly zero.
C11_ZeroLimitUnbounded ==
    (DiscoverReturned /\ limit = 0) =>
        /\ queries # <<>>
        /\ Len(LastPage) < page_size
        /\ ReturnedIds = BackendIds(backend)
        /\ Len(Val(dret)[1]) = Cardinality(BackendIds(backend))

\* C12: with a positive limit over a backend holding N distinct summaries,
\* discover returns min(limit, N) of them, all N when the limit exceeds N,
\* together with the total the backend reported.
C12_PositiveLimitCount ==
    (DiscoverReturned /\ limit > 0) =>
        LET N == Cardinality(BackendIds(backend)) IN
        /\ Len(Val(dret)[1]) = Min(limit, N)
        /\ ReturnedIds \subseteq BackendIds(backend)
        /\ limit >= N => ReturnedIds = BackendIds(backend)
        /\ Val(dret)[2] = BackendTotal(backend)

\* A limit of 3 over four entries holding 2 distinct identifiers, read in
\* several pages: both are returned.
C12_Witness ==
    /\ DiscoverReturned
    /\ limit = 3
    /\ Len(backend) = 4
    /\ Cardinality(BackendIds(backend)) = 2
    /\ Len(queries) >= 3
    /\ Len(Val(dret)[1]) = 2
    /\ Val(dret)[2] = 4

\* C13: the queries of one discover call carry the page numbers 1, 2, 3, ...
\* and one page size, each issued after the previous page was processed, and
\* none is issued once a positive limit is reached or the last page came back
\* short or empty.
C13_SequentialPaging ==
    [][queries' # queries =>
          /\ dpc = "loop"
          /\ queries' = Append(queries, [pageNum |-> Len(queries) + 1,
                                         pageSize |-> page_size])
          /\ page_size' = page_size
          /\ ~(limit > 0 /\ Len(summaries) >= limit)
          /\ queries # <<>> => /\ LastPage # <<>>
                               /\ Len(LastPage) = page_size]_vars

\* Two full pages read, the limit reached on the second, and the backend
\* holding more entries that are never asked for.
C13_Witness ==
    /\ DiscoverReturned
    /\ Len(queries) = 2
    /\ queries[2].pageNum = 2
    /\ limit > 0
    /\ Len(summaries) >= limit
    /\ Len(LastPage) = page_size
    /\ Len(backend) > 2 * page_size

\* ------------------------------------------------------ collect_traces
\* Bounds of the collection model.
MaxTraces == 3
MaxSize == 2
MaxWorkers == 2

\* Default of fetch_trace_summaries' page_size, which collect_traces leaves.
DefaultPageSize == 200

\* What the backend's span store holds for each trace identifier.
StoredSpans(trace_id) ==
    CASE trace_id = "t1" ->
            << RawSpan(Some("A"), Some(0), Some(-1), <<>>, Some("svc-b")),
               RawSpan(Some("A"), Some(1), Some(0), <<>>, Some("svc-a")) >>
      [] trace_id = "t2" ->
            << RawSpan(Some("A"), Some(0), Some(-1), <<>>, Some("svc-a")),
               RawSpan(None, Some(1), Some(0), <<>>, Some("svc-c")) >>
      [] OTHER ->
            << RawSpan(Some("B"), Some(0), None,
                       <<Ref(Some("A"), Some(1))>>, None),
               RawSpan(Some("B"), Some(1), Some(0), <<>>, Some("")) >>

\* What one fetch_trace_spans call can come to (lines 390-396): the query
\* raises, or the spans of the answer are returned.
Raised == [exc |-> TRUE, spans |-> <<>>, data |-> None]
Returned(sp, data) == [exc |-> FALSE, spans |-> sp, data |-> Some(data)]

\* An element of the decoded span list that is no dict (a JSON null).
NullSpan ==
    [segmentId |-> None, spanId |-> None, parentSpanId |-> None, refs |-> <<>>,
     serviceCode |-> None, _node_id |-> None, null |-> TRUE]

IsNull(span) == "null" \in DOMAIN span

\* Line 411: span.get raises AttributeError on an element that is no dict.
BuildRaises(sp) == \E k \in 1..Len(sp) : IsNull(sp[k])

\* What _post_graphql can return for the detail query of one trace: a dict
\* without a usable "trace" member, or a trace with its span list.
NoTrace == [trace |-> None]
TraceOf(sp) == [trace |-> Some([spans |-> sp])]

DetailAnswers(trace_id) ==
    { NoTrace,
      TraceOf(<<>>),
      TraceOf(<<RawSpan(Some("A"), None, Some(-1), <<>>, Some("svc-c"))>>),
      TraceOf(<<NullSpan>>),
      TraceOf(StoredSpans(trace_id)) }

\* The empty list handed back as a failure instead.
SpansOfOrRaise(data) ==
    IF data.trace = None \/ Val(data.trace).spans = <<>>
    THEN [exc |-> TRUE, spans |-> <<>>, data |-> Some(data)]
    ELSE Returned(Val(data.trace).spans, data)

\* Lines 393-396: (data.get("trace") or {}).get("spans") or [].
FetchTraceSpans(data) ==
    IF data.trace = None THEN Returned(<<>>, data)
    ELSE Returned(Val(data.trace).spans, data)

FetchOutcomes(trace_id) ==
    {Raised} \cup {FetchTraceSpans(data) : data \in DetailAnswers(trace_id)}

\* sorted(...) of a set of service codes.
ServiceOrder == <<"svc-a", "svc-b", "svc-c">>

RECURSIVE SortedOf(_, _)
SortedOf(S, order) ==
    IF order = <<>> THEN <<>>
    ELSE IF Head(order) \in S
         THEN <<Head(order)>> \o SortedOf(S, Tail(order))
         ELSE SortedOf(S, Tail(order))

\* `if rec.service_code`: neither None nor the empty string.
HasService(rec) == rec.service_code # None /\ Val(rec.service_code) # ""

\* Every service of the backend named for every trace.
ServicesInvolvedRaw(recs) ==
    SortedOf({"svc-a", "svc-b", "svc-c"}, ServiceOrder)

\* Line 536.
ServicesInvolved(recs) ==
    SortedOf({Val(recs[k].service_code) : k \in {j \in 1..Len(recs) : HasService(recs[j])}},
             ServiceOrder)

\* The record paired with the first submitted summary, whichever the future.
TraceRecordFirstSummary(summary, built) ==
    [summary |-> c_summaries[1],
     span_count |-> Len(built.span_records),
     services_involved |-> ServicesInvolved(built.span_records),
     root_span_node_ids |-> built.roots,
     spans |-> built.span_records]

\* Lines 540-546.
TraceRecord(summary, built) ==
    [summary |-> summary,
     span_count |-> Len(built.span_records),
     services_involved |-> ServicesInvolved(built.span_records),
     root_span_node_ids |-> built.roots,
     spans |-> built.span_records]

\* The fetch error passed on instead of being logged.
ProcessCompletedReraise(coll, svcs, summary, outcome) ==
    IF outcome.exc
    THEN [collected |-> coll, services_seen |-> svcs, err |-> Some("BackendUnavailable")]
    ELSE IF BuildRaises(outcome.spans)
    THEN [collected |-> coll, services_seen |-> svcs, err |-> Some("AttributeError")]
    ELSE LET built == BuildSpanRecords(outcome.spans) IN
         IF built.span_records = <<>>
         THEN [collected |-> coll, services_seen |-> svcs, err |-> None]
         ELSE LET rec == TraceRecord(summary, built) IN
              [collected |-> Append(coll, rec),
               services_seen |-> svcs \cup SeqRange(rec.services_involved),
               err |-> None]

\* Lines 524-547: the body of the as_completed loop for one future. The
\* try block covers future.result() alone (lines 525-529): an exception of
\* _build_span_records (line 531) leaves the loop.
ProcessCompleted(coll, svcs, summary, outcome) ==
    IF outcome.exc
    THEN [collected |-> coll, services_seen |-> svcs, err |-> None]
    ELSE IF BuildRaises(outcome.spans)
    THEN [collected |-> coll, services_seen |-> svcs, err |-> Some("AttributeError")]
    ELSE LET built == BuildSpanRecords(outcome.spans) IN
         IF built.span_records = <<>>
         THEN [collected |-> coll, services_seen |-> svcs, err |-> None]
         ELSE LET rec == TraceRecord(summary, built) IN
              [collected |-> Append(coll, rec),
               services_seen |-> svcs \cup SeqRange(rec.services_involved),
               err |-> None]

NoSummariesNever(sums) == FALSE

\* Line 511: `if not summaries`.
NoSummaries(sums) == sums = <<>>

NothingCollectedNever(coll) == FALSE

\* Line 549: `if not collected`.
NothingCollected(coll) == coll = <<>>

\* A pool one thread larger than asked for.
PoolSizePlusOne(workers) == Max(1, workers) + 1

\* Line 519: max(1, max_workers).
PoolSize(workers) == Max(1, workers)

\* Lines 564-578.
Payload(coll, svcs, total, requested) ==
    [collected_traces |-> Len(coll),
     available_total |-> total,
     requested_trace_limit |-> requested,
     services_discovered |-> SortedOf(svcs, ServiceOrder),
     traces |-> coll]

Future(summary) == [summary |-> summary, state |-> "pending",
                    outcome |-> None, yielded |-> FALSE]

Running == {i \in 1..Len(futures) : futures[i].state = "running"}
Pending == {i \in 1..Len(futures) : futures[i].state = "pending"}

\* Line 504 raises: the error of the discovery query leaves collect_traces.
CollectDiscoverRaised ==
    /\ cpc = "discover"
    /\ dpc = "raised"
    /\ cerr' = Some("BackendUnavailable")
    /\ cpc' = "raised"
    /\ UNCHANGED <<size, max_workers, c_summaries, futures, collected,
                   services_seen, artifact>>
    /\ UNCHANGED <<buildVars, discoverVars, postVars>>

\* Lines 504-512: discovery returned nothing.
CollectNoSummaries ==
    /\ cpc = "discover"
    /\ dpc = "returned"
    /\ NoSummaries(Val(dret)[1])
    /\ c_summaries' = Val(dret)[1]
    /\ cerr' = Some("NoSummaries")
    /\ cpc' = "raised"
    /\ UNCHANGED <<size, max_workers, futures, collected, services_seen, artifact>>
    /\ UNCHANGED <<buildVars, discoverVars, postVars>>

\* Two fetches submitted per summary.
CollectSubmitTwice ==
    /\ cpc = "discover"
    /\ dpc = "returned"
    /\ ~NoSummaries(Val(dret)[1])
    /\ c_summaries' = Val(dret)[1]
    /\ futures' = [k \in 1..2 * Len(c_summaries') |-> Future(c_summaries'[(k + 1) \div 2])]
    /\ collected' = <<>>
    /\ services_seen' = {}
    /\ cpc' = "gather"
    /\ UNCHANGED <<size, max_workers, artifact, cerr>>
    /\ UNCHANGED <<buildVars, discoverVars, postVars>>

\* Lines 504-522: one fetch submitted per summary.
CollectSubmit ==
    /\ cpc = "discover"
    /\ dpc = "returned"
    /\ ~NoSummaries(Val(dret)[1])
    /\ c_summaries' = Val(dret)[1]
    /\ futures' = [k \in 1..Len(c_summaries') |-> Future(c_summaries'[k])]
    /\ collected' = <<>>
    /\ services_seen' = {}
    /\ cpc' = "gather"
    /\ UNCHANGED <<size, max_workers, artifact, cerr>>
    /\ UNCHANGED <<buildVars, discoverVars, postVars>>

\* A pool thread takes the oldest queued fetch.
WorkerStart ==
    /\ cpc \in {"gather", "unwind"}
    /\ Pending # {}
    /\ Cardinality(Running) < PoolSize(max_workers)
    /\ LET i == CHOOSE i \in Pending : \A j \in Pending : i <= j IN
       futures' = [futures EXCEPT ![i].state = "running"]
    /\ UNCHANGED <<size, max_workers, c_summaries, collected, services_seen,
                   artifact, cerr, cpc>>
    /\ UNCHANGED <<buildVars, discoverVars, postVars>>

\* The pool thread merging its own result into the accumulators.
WorkerFinishMerges ==
    /\ cpc = "gather"
    /\ \E i \in Running :
          \E outcome \in FetchOutcomes(futures[i].summary.trace_id) :
              /\ futures' = [futures EXCEPT ![i].state = "done",
                                            ![i].outcome = Some(outcome),
                                            ![i].yielded = TRUE]
              /\ LET r == ProcessCompleted(collected, services_seen,
                                           futures[i].summary, outcome)
                 IN  /\ collected' = r.collected
                     /\ services_seen' = r.services_seen
    /\ UNCHANGED <<size, max_workers, c_summaries, artifact, cerr, cpc>>
    /\ UNCHANGED <<buildVars, discoverVars, postVars>>

\* fetch_trace_spans returns or raises on its pool thread (lines 390-396).
WorkerFinish ==
    /\ cpc \in {"gather", "unwind"}
    /\ \E i \in Running :
          \E outcome \in FetchOutcomes(futures[i].summary.trace_id) :
              futures' = [futures EXCEPT ![i].state = "done",
                                         ![i].outcome = Some(outcome)]
    /\ UNCHANGED <<size, max_workers, c_summaries, collected, services_seen,
                   artifact, cerr, cpc>>
    /\ UNCHANGED <<buildVars, discoverVars, postVars>>

\* as_completed yields a finished future: one loop body (lines 523-547).
CollectProcess ==
    /\ cpc = "gather"
    /\ \E i \in 1..Len(futures) :
          /\ futures[i].state = "done"
          /\ ~futures[i].yielded
          /\ LET r == ProcessCompleted(collected, services_seen,
                                       futures[i].summary, Val(futures[i].outcome))
             IN  /\ collected' = r.collected
                 /\ services_seen' = r.services_seen
                 /\ cerr' = r.err
                 /\ cpc' = IF r.err = None THEN "gather" ELSE "unwind"
          /\ futures' = [futures EXCEPT ![i].yielded = TRUE]
    /\ UNCHANGED <<size, max_workers, c_summaries, artifact>>
    /\ UNCHANGED <<buildVars, discoverVars, postVars>>

\* The exception leaves the `with` block of line 519: the executor's exit
\* waits for every submitted fetch, then the exception leaves collect_traces.
CollectUnwound ==
    /\ cpc = "unwind"
    /\ Running = {}
    /\ Pending = {}
    /\ cpc' = "raised"
    /\ UNCHANGED <<size, max_workers, c_summaries, futures, collected,
                   services_seen, artifact, cerr>>
    /\ UNCHANGED <<buildVars, discoverVars, postVars>>

AllYielded == \A i \in 1..Len(futures) : futures[i].yielded

\* Lines 549-550: nothing was retained.
CollectAllFailed ==
    /\ cpc = "gather"
    /\ AllYielded
    /\ NothingCollected(collected)
    /\ cerr' = Some("AllFetchesFailed")
    /\ cpc' = "raised"
    /\ UNCHANGED <<size, max_workers, c_summaries, futures, collected,
                   services_seen, artifact>>
    /\ UNCHANGED <<buildVars, discoverVars, postVars>>

\* Lines 552-584: the artifact is written and its path returned.
CollectWrite ==
    /\ cpc = "gather"
    /\ AllYielded
    /\ ~NothingCollected(collected)
    /\ artifact' = Some(Payload(collected, services_seen, Val(dret)[2], size))
    /\ cpc' = "done"
    /\ UNCHANGED <<size, max_workers, c_summaries, futures, collected,
                   services_seen, cerr>>
    /\ UNCHANGED <<buildVars, discoverVars, postVars>>

CollectNext ==
    \/ DiscoverQuery /\ UNCHANGED <<buildVars, collectVars, postVars>>
    \/ DiscoverQueryFails /\ UNCHANGED <<buildVars, collectVars, postVars>>
    \/ DiscoverReturn /\ UNCHANGED <<buildVars, collectVars, postVars>>
    \/ CollectDiscoverRaised
    \/ CollectNoSummaries
    \/ CollectSubmit
    \/ WorkerStart
    \/ WorkerFinish
    \/ CollectProcess
    \/ CollectUnwound
    \/ CollectAllFailed
    \/ CollectWrite

\* collect_traces called with every size and worker count of the bounds
\* against every backend content: lines 504-509 enter discovery.
InitCollect ==
    /\ \E sz \in -1..MaxSize, workers \in 0..MaxWorkers,
          be \in SeqsUpTo(Entries, MaxTraces) :
          /\ size = sz
          /\ max_workers = workers
          /\ DiscoverCall(sz, DefaultPageSize, be)
    /\ c_summaries = <<>>
    /\ futures = <<>>
    /\ collected = <<>>
    /\ services_seen = {}
    /\ artifact = None
    /\ cerr = None
    /\ cpc = "discover"
    /\ BuildIdle
    /\ PostIdle

SpecCollect == InitCollect /\ [][CollectNext]_vars

CollectEnded == cpc \in {"done", "raised"}

\* ------------------------------- collect_traces over the query client
\* A collect run in which each page query of discovery is followed through
\* _post_graphql, attempt by attempt, under every configured attempt count.
MaxClientRetries == 2
MaxClientTraces == 2
MaxClientSize == 1

\* Line 345: fetch_trace_summaries calls _post_graphql for the next page.
DiscoverPosts ==
    /\ dpc = "loop"
    /\ ~LimitReached(limit, summaries)
    /\ ppc = "idle"
    /\ queries' = Append(queries, [pageNum |-> page, pageSize |-> page_size])
    /\ dpc' = "query"
    /\ attempt' = 1
    /\ posts' = <<>>
    /\ waits' = <<>>
    /\ pret' = None
    /\ perr' = None
    /\ ppc' = "loop"
    /\ UNCHANGED <<backend, limit, page_size, page, seen, summaries,
                   total_available, dret, max_retries>>

\* Lines 346-386: the dict _post_graphql returned is read. An empty dict
\* gives no traces and a total of 0; otherwise it holds the backend's page.
DiscoverTakes ==
    /\ dpc = "query"
    /\ ppc = "returned"
    /\ LET traces == IF Val(pret) = EmptyDict THEN <<>>
                     ELSE BackendPage(backend, page, page_size)
           taken == TakeEntries(traces, 1, summaries, seen, limit)
       IN  /\ total_available' = IF Val(pret) = EmptyDict THEN 0
                                 ELSE BackendTotal(backend)
           /\ IF traces = <<>>
              THEN /\ dpc' = "break"
                   /\ UNCHANGED <<summaries, seen, page>>
              ELSE /\ summaries' = taken.summaries
                   /\ seen' = taken.seen
                   /\ IF Len(traces) < page_size
                      THEN dpc' = "break" /\ page' = page
                      ELSE dpc' = "loop" /\ page' = page + 1
    /\ attempt' = 0
    /\ posts' = <<>>
    /\ waits' = <<>>
    /\ pret' = None
    /\ ppc' = "idle"
    /\ UNCHANGED <<backend, limit, page_size, queries, dret, max_retries, perr>>

\* Line 345: the error of _post_graphql leaves fetch_trace_summaries.
DiscoverPostRaised ==
    /\ dpc = "query"
    /\ ppc = "raised"
    /\ dpc' = "raised"
    /\ UNCHANGED <<backend, limit, page_size, page, seen, summaries,
                   total_available, queries, dret>>
    /\ UNCHANGED postVars

ClientNext ==
    \/ DiscoverPosts /\ UNCHANGED <<buildVars, collectVars>>
    \/ PostSucceeds /\ UNCHANGED <<buildVars, discoverVars, collectVars>>
    \/ PostFailsRetry /\ UNCHANGED <<buildVars, discoverVars, collectVars>>
    \/ PostFailsRaise /\ UNCHANGED <<buildVars, discoverVars, collectVars>>
    \/ PostLoopEnds /\ UNCHANGED <<buildVars, discoverVars, collectVars>>
    \/ DiscoverTakes /\ UNCHANGED <<buildVars, collectVars>>
    \/ DiscoverPostRaised /\ UNCHANGED <<buildVars, collectVars>>
    \/ DiscoverReturn /\ UNCHANGED <<buildVars, collectVars, postVars>>
    \/ CollectDiscoverRaised
    \/ CollectNoSummaries
    \/ CollectSubmit
    \/ WorkerStart
    \/ WorkerFinish
    \/ CollectProcess
    \/ CollectUnwound
    \/ CollectAllFailed
    \/ CollectWrite

\* collect_traces on a collector constructed with every attempt count of the
\* bound, zero and negative ones included.
InitClient ==
    /\ \E sz \in 0..MaxClientSize, be \in SeqsUpTo(Entries, MaxClientTraces) :
          /\ size = sz
          /\ DiscoverCall(sz, DefaultPageSize, be)
    /\ max_workers = 1
    /\ c_summaries = <<>>
    /\ futures = <<>>
    /\ collected = <<>>
    /\ services_seen = {}
    /\ artifact = None
    /\ cerr = None
    /\ cpc = "discover"
    /\ BuildIdle
    /\ \E maxr \in -1..MaxClientRetries : ClientIdle(maxr)

SpecClient == InitClient /\ [][ClientNext]_vars

\* ------------------------------------------ properties of collection
AllFetched == \A i \in 1..Len(futures) : futures[i].state = "done"

FetchFailed(i) == futures[i].state = "done" /\ Val(futures[i].outcome).exc

\* The fetch returned at least one span carrying both identifiers.
FetchUsable(i) ==
    /\ futures[i].state = "done"
    /\ ~Val(futures[i].outcome).exc
    /\ \E k \in 1..Len(Val(futures[i].outcome).spans) :
          LET s == Val(futures[i].outcome).spans[k]
          IN  s.segmentId # None /\ s.spanId # None

\* The fetch returned a span list on which _build_span_records raises.
FetchBroken(i) ==
    /\ futures[i].state = "done"
    /\ ~Val(futures[i].outcome).exc
    /\ BuildRaises(Val(futures[i].outcome).spans)

BrokenSet == {i \in 1..Len(futures) : FetchBroken(i)}

FailedSet == {i \in 1..Len(futures) : FetchFailed(i)}
UsableSet == {i \in 1..Len(futures) : FetchUsable(i)}

\* C7: over N discovered summaries of which k < N fetches fail and the other
\* N - k return usable spans, collect does not raise, in any order of
\* completion, and the artifact it writes holds exactly N - k records, those
\* of the summaries whose fetch succeeded.
C7_PartialFailure ==
    (/\ futures # <<>>
     /\ AllFetched
     /\ FailedSet \cup UsableSet = 1..Len(futures)
     /\ UsableSet # {})
    => /\ cpc # "raised"
       /\ cerr = None
       /\ cpc = "done" =>
             /\ artifact # None
             /\ Len(Val(artifact).traces) = Len(futures) - Cardinality(FailedSet)
             /\ Val(artifact).collected_traces = Len(futures) - Cardinality(FailedSet)
             /\ {Val(artifact).traces[k].summary : k \in 1..Len(Val(artifact).traces)}
                    = {futures[i].summary : i \in UsableSet}

\* Three summaries, one failed fetch, two workers, and the records retained
\* in another order than the summaries were submitted.
C7_Witness ==
    /\ cpc = "done"
    /\ Len(futures) = 3
    /\ Cardinality(FailedSet) = 1
    /\ Cardinality(UsableSet) = 2
    /\ PoolSize(max_workers) = 2
    /\ Len(Val(artifact).traces) = 2
    /\ Val(artifact).traces[1].summary = futures[3].summary

C9_NoSummaries ==
    /\ cpc = "discover" => futures = <<>> /\ artifact = None
    /\ (dpc = "returned" /\ Val(dret)[1] = <<>> /\ cpc # "discover")
       => /\ cpc = "raised"
          /\ cerr = Some("NoSummaries")
          /\ futures = <<>>
          /\ artifact = None

\* Discovery queried a backend that holds entries and returned nothing.
C9_Witness ==
    /\ cpc = "raised"
    /\ cerr = Some("NoSummaries")
    /\ queries # <<>>
    /\ backend # <<>>
    /\ futures = <<>>
    /\ artifact = None

\* ------------------------------------------------ properties of build
Usable(span) == span.segmentId # None /\ span.spanId # None

SpanNodeId(span) == NodeId(Val(span.segmentId), Val(span.spanId))

RecordIds == {span_records[k].node_id : k \in 1..Len(span_records)}

\* C1: for every finite raw span list, repeated node identifiers and cyclic
\* parent links included, build terminates: the breadth-first queue
\* eventually becomes empty and the records are returned.
C1_BuildTerminates == <>(bpc = "done")

\* C2: no node identifier appears twice in the node list build returns, even
\* when two raw spans carry the same segment_id and span_id.
C2_NoDuplicateNodeIds ==
    BuildDone =>
        \A i, j \in 1..Len(span_records) :
            i # j => span_records[i].node_id # span_records[j].node_id

\* C3: after build the children lists invert the recorded parent links
\* exactly: N is listed among the children of P if and only if the
\* parent_node_id recorded on N is P and P is a returned node.
C3_ChildrenInvertParents ==
    BuildDone =>
        \A p, n \in 1..Len(span_records) :
            LET P == span_records[p]
                N == span_records[n]
            IN  /\ SeqRange(P.children_ids) \subseteq RecordIds
                /\ (N.node_id \in SeqRange(P.children_ids))
                       <=> (N.parent_node_id = Some(P.node_id))

\* The parent the resolution rule gives a span: (a) the local parent when
\* parent_span_id is present and non-negative, (b) otherwise the pair of the
\* first ref, (c) otherwise none. A first ref lacking one of its two fields
\* names no node.
RefTarget(ref) ==
    IF ref.parentSegmentId = None \/ ref.parentSpanId = None THEN None
    ELSE Some(<<Val(ref.parentSegmentId), Val(ref.parentSpanId)>>)

HasLocalParent(span) ==
    \E v \in -1..1 : span.parentSpanId = Some(v) /\ v >= 0

RuleParent(span) ==
    CASE HasLocalParent(span) ->
            Some(<<Val(span.segmentId), Val(span.parentSpanId)>>)
      [] ~HasLocalParent(span) /\ Len(span.refs) >= 1 -> RefTarget(Head(span.refs))
      [] OTHER -> None

UsableIdx == {k \in 1..Len(spans) : Usable(spans[k])}

\* Parent links walked upwards from node `id`; -1 when no parentless span
\* is met within `fuel` links.
RECURSIVE LinksToRoot(_, _)
LinksToRoot(id, fuel) ==
    LET k == CHOOSE k \in UsableIdx : SpanNodeId(spans[k]) = id
        par == RuleParent(spans[k])
    IN  IF par = None THEN 0
        ELSE IF fuel = 0 \/ ~\E m \in UsableIdx : SpanNodeId(spans[m]) = Val(par)
             THEN -1
             ELSE LET d == LinksToRoot(Val(par), fuel - 1)
                  IN  IF d < 0 THEN -1 ELSE d + 1

\* The raw spans form one rooted tree: distinct node identifiers, exactly one
\* span without a parent, every other span linked to it by parent links.
SingleRootedTree ==
    /\ UsableIdx # {}
    /\ \A k, m \in UsableIdx : k # m => SpanNodeId(spans[k]) # SpanNodeId(spans[m])
    /\ Cardinality({k \in UsableIdx : RuleParent(spans[k]) = None}) = 1
    /\ \A k \in UsableIdx : LinksToRoot(SpanNodeId(spans[k]), Len(spans)) >= 0

\* C4: when the raw spans form a single rooted tree, build returns exactly
\* one root, the parentless span, and the depth of every node is the number
\* of parent links between it and that root.
C4_TreeDepths ==
    (BuildDone /\ SingleRootedTree) =>
        /\ Len(roots) = 1
        /\ \E k \in UsableIdx :
              RuleParent(spans[k]) = None /\ roots[1] = SpanNodeId(spans[k])
        /\ \A r \in 1..Len(span_records) :
              span_records[r].depth = LinksToRoot(span_records[r].node_id, Len(spans))

\* The example of C4: A:0 without parent, A:1 under A:0, B:0 under A:1 by its
\* first ref, with depths 0, 1, 2 and root list [A:0].
C4_Witness ==
    /\ BuildDone
    /\ SingleRootedTree
    /\ Len(span_records) = 3
    /\ roots = << <<"A", 0>> >>
    /\ \E r \in 1..3 : span_records[r].node_id = <<"A", 0>> /\ span_records[r].depth = 0
    /\ \E r \in 1..3 : span_records[r].node_id = <<"A", 1>> /\ span_records[r].depth = 1
    /\ \E r \in 1..3 : /\ span_records[r].node_id = <<"B", 0>>
                       /\ span_records[r].depth = 2
                       /\ span_records[r].parent_node_id = Some(<<"A", 1>>)

Dangling(rec) == rec.parent_node_id # None /\ Val(rec.parent_node_id) \notin RecordIds

\* The raw span that decides the links of its node identifier: the last one
\* carrying it (the only one when identifiers are distinct).
LastOfItsId(k) ==
    \A m \in UsableIdx : SpanNodeId(spans[m]) = SpanNodeId(spans[k]) => m <= k

UsableIds == {SpanNodeId(spans[k]) : k \in UsableIdx}

\* C5: a returned span whose resolved parent identifier matches no returned
\* node is in the root list, and its parent_node_id still holds that
\* non-null, unresolved identifier.
C5_DanglingIsRoot ==
    BuildDone =>
        /\ \A r \in 1..Len(span_records) :
              Dangling(span_records[r]) => span_records[r].node_id \in SeqRange(roots)
        /\ \A k \in UsableIdx :
              (/\ LastOfItsId(k)
               /\ RuleParent(spans[k]) # None
               /\ Val(RuleParent(spans[k])) \notin UsableIds)
              => /\ SpanNodeId(spans[k]) \in SeqRange(roots)
                 /\ \A r \in 1..Len(span_records) :
                       span_records[r].node_id = SpanNodeId(spans[k])
                       => span_records[r].parent_node_id = RuleParent(spans[k])

C5_Witness ==
    /\ BuildDone
    /\ \E r \in 1..Len(span_records) :
          /\ Dangling(span_records[r])
          /\ span_records[r].node_id \in SeqRange(roots)
          /\ Len(span_records) > 1

\* C6: the parent stored for the span the relationships loop has just
\* processed is the one the priority rule gives it: the local parent when
\* parent_span_id is non-negative (refs ignored), else the first ref's pair
\* (later refs ignored), else none.
C6_ParentPriority ==
    (bpc = "stage2" /\ bi > 1 /\ Usable(spans[bi - 1])) =>
        DictGet(parents, SpanNodeId(spans[bi - 1]), <<"unset">>) = RuleParent(spans[bi - 1])

\* A span with a local parent and refs placed under the local parent, and a
\* span with two refs placed under the first.
C6_Witness ==
    /\ bpc = "stage2"
    /\ bi = 3
    /\ HasLocalParent(spans[1]) /\ spans[1].refs # <<>> /\ Usable(spans[1])
    /\ DictGet(parents, SpanNodeId(spans[1]), None)
           = Some(<<Val(spans[1].segmentId), Val(spans[1].parentSpanId)>>)
    /\ ~HasLocalParent(spans[2]) /\ Len(spans[2].refs) = 2 /\ Usable(spans[2])
    /\ SpanNodeId(spans[2]) # SpanNodeId(spans[1])
    /\ DictGet(parents, SpanNodeId(spans[2]), None) = RefTarget(spans[2].refs[1])
    /\ RefTarget(spans[2].refs[1]) # None

\* C16: at every moment of a collect run at most max(1, max_workers) fetches
\* are executing; with max_workers of 0 or below exactly one worker runs
\* them, and every discovered summary has been fetched when the run ends.
C16_BoundedPool ==
    /\ Cardinality(Running) <= (IF max_workers >= 1 THEN max_workers ELSE 1)
    /\ (cpc = "gather" /\ ~AllFetched /\ Running = {}) => ENABLED WorkerStart
    /\ cpc \in {"gather", "done", "raised"} /\ dpc = "returned" /\ futures # <<>>
       => /\ Len(futures) = Len(Val(dret)[1])
          /\ \A i \in 1..Len(futures) : futures[i].summary = Val(dret)[1][i]
    /\ (CollectEnded /\ dpc = "returned" /\ Val(dret)[1] # <<>>) => AllFetched

\* max_workers = 0 over three summaries: one fetch done, one running on the
\* single worker, one waiting for it.
C16_Witness ==
    /\ cpc = "gather"
    /\ max_workers = 0
    /\ Len(futures) = 3
    /\ futures[1].state = "done"
    /\ futures[2].state = "running"
    /\ futures[3].state = "pending"

\* A pool thread took a fetch or ended one.
WorkerStepObserved ==
    /\ Len(futures') = Len(futures)
    /\ \E i \in 1..Len(futures) : futures'[i].state # futures[i].state

\* The coordinator ran one body of its as_completed loop.
CoordinatorMerged ==
    /\ cpc = "gather"
    /\ \E i \in 1..Len(futures) :
          /\ futures[i].state = "done"
          /\ ~futures[i].yielded
          /\ futures'[i].yielded
          /\ futures'[i].state = "done"

\* C17: the retained-record list, the discovered-service set and discover's
\* seen set change only in steps of the coordinating thread; a step of a
\* worker thread changes the state and result of its own fetch only, and
\* each change of the accumulators extends them, dropping nothing.
C17_SingleMutator ==
    [][/\ WorkerStepObserved =>
             UNCHANGED <<collected, services_seen, seen, summaries,
                         c_summaries, artifact, cerr, cpc>>
       /\ (collected' # collected \/ services_seen' # services_seen) =>
             /\ CoordinatorMerged
             /\ ~WorkerStepObserved
             /\ Len(collected') <= Len(collected) + 1
             /\ SubSeq(collected', 1, Len(collected)) = collected
             /\ services_seen \subseteq services_seen'
       /\ seen' # seen =>
             /\ dpc = "loop"
             /\ futures = <<>>
             /\ seen \subseteq seen']_vars

\* The coordinator has merged one record while one fetch has finished
\* unmerged and another is still running.
C17_Witness ==
    /\ cpc = "gather"
    /\ Len(collected) = 1
    /\ services_seen # {}
    /\ Running # {}
    /\ \E i \in 1..Len(futures) : futures[i].state = "done" /\ ~futures[i].yielded

\* The record of future i, from its own summary and its own fetched spans.
OwnRecord(i) ==
    TraceRecord(futures[i].summary,
                BuildSpanRecords(Val(futures[i].outcome).spans))

\* The futures the coordinator has taken from as_completed.
YieldedUsable == {i \in UsableSet : futures[i].yielded}

\* C18: whatever order the fetches complete and are merged in, the retained
\* records are the records of the usable fetches, each built from its own
\* summary and the spans fetched for that summary's trace identifier, and
\* the service set is the union of their services; order alone may differ.
C18_OrderIndependent ==
    cpc \in {"gather", "done"} =>
        /\ Len(collected) = Cardinality(YieldedUsable)
        /\ SeqRange(collected) = {OwnRecord(i) : i \in YieldedUsable}
        /\ services_seen =
              UNION {SeqRange(OwnRecord(i).services_involved) : i \in YieldedUsable}
        /\ \A k \in 1..Len(collected) :
              \E outcome \in FetchOutcomes(collected[k].summary.trace_id) :
                  collected[k].spans = BuildSpanRecords(outcome.spans).span_records
        /\ cpc = "done" =>
              /\ YieldedUsable = UsableSet
              /\ SeqRange(Val(artifact).traces) = {OwnRecord(i) : i \in UsableSet}
              /\ Val(artifact).services_discovered
                    = SortedOf(UNION {SeqRange(OwnRecord(i).services_involved) :
                                         i \in UsableSet}, ServiceOrder)

\* Three usable fetches on two workers merged in the order 2, 3, 1.
C18_Witness ==
    /\ cpc = "done"
    /\ PoolSize(max_workers) = 2
    /\ Len(futures) = 3
    /\ UsableSet = {1, 2, 3}
    /\ Val(artifact).traces[1].summary = futures[2].summary
    /\ Val(artifact).traces[2].summary = futures[3].summary
    /\ Val(artifact).traces[3].summary = futures[1].summary
    /\ Val(artifact).traces[3].spans # Val(artifact).traces[1].spans

\* C19: a failure confined to one trace, its fetch raising or the building
\* of its span records raising, never leaves collect: the only errors of a
\* run that dispatched fetches are run-level ones, every trace is fetched,
\* and every trace with usable spans is retained in the written artifact.
C19_PerTraceFailureAbsorbed ==
    (CollectEnded /\ futures # <<>>) =>
        /\ cerr \in {None, Some("AllFetchesFailed")}
        /\ AllFetched
        /\ UsableSet # {} =>
              /\ cpc = "done"
              /\ \A i \in UsableSet : OwnRecord(i) \in SeqRange(Val(artifact).traces)

\* The part of C19 the code keeps: fetches that raise are absorbed.
C19_FetchFailureAbsorbed ==
    (CollectEnded /\ futures # <<>> /\ BrokenSet = {}) =>
        /\ cerr \in {None, Some("AllFetchesFailed")}
        /\ AllFetched
        /\ UsableSet # {} =>
              /\ cpc = "done"
              /\ \A i \in UsableSet : OwnRecord(i) \in SeqRange(Val(artifact).traces)

\* The backend answered the detail query of future i with no span.
ZeroSpansReported(i) ==
    /\ futures[i].state = "done"
    /\ Val(futures[i].outcome).data # None
    /\ LET data == Val(Val(futures[i].outcome).data)
       IN  data.trace = None \/ Val(data.trace).spans = <<>>

ZeroSet == {i \in 1..Len(futures) : ZeroSpansReported(i)}

ServiceCodesOf(traces) ==
    UNION { {Val(traces[k].spans[m].service_code) :
                m \in {n \in 1..Len(traces[k].spans) :
                          /\ traces[k].spans[n].service_code # None
                          /\ Val(traces[k].spans[n].service_code) # ""}} :
            k \in 1..Len(traces) }

ServiceRank(svc) == CHOOSE r \in 1..Len(ServiceOrder) : ServiceOrder[r] = svc

\* C21: services_discovered of the artifact is the service codes of the
\* spans of the retained records, each once and in ascending order; a code
\* seen only in a failed or skipped trace, or on a dropped span, is absent.
C21_ServicesDiscovered ==
    cpc = "done" =>
        LET sd == Val(artifact).services_discovered IN
        /\ SeqRange(sd) = ServiceCodesOf(Val(artifact).traces)
        /\ \A i, j \in 1..Len(sd) : i < j => ServiceRank(sd[i]) < ServiceRank(sd[j])

\* Two retained traces sharing svc-a, one of them with a dropped svc-c span,
\* and a third trace skipped whose only span names svc-c.
C21_Witness ==
    /\ cpc = "done"
    /\ Len(futures) = 3
    /\ UsableSet = {1, 2}
    /\ futures[1].summary.trace_id = "t2"
    /\ futures[2].summary.trace_id = "t1"
    /\ Val(futures[3].outcome).spans # <<>>
    /\ ~FetchBroken(3)
    /\ Val(artifact).services_discovered = <<"svc-a", "svc-b">>

\* The raw span as it was handed in, before stage 1 marked it.
Unmarked(span) == [span EXCEPT !._node_id = None]

BuildInput == [k \in 1..Len(spans) |-> Unmarked(spans[k])]

\* C22: a raw span without segmentId or spanId is dropped without an error:
\* the records and roots returned are those of the list without it, one
\* record per span carrying both identifiers, and an empty list returns no
\* record and no root.
C22_MalformedDropped ==
    BuildDone =>
        LET kept == SelectSeq(BuildInput, Usable)
            r == BuildSpanRecords(kept)
        IN  /\ span_records = r.span_records
            /\ roots = r.roots
            /\ Len(span_records) = Len(kept)
            /\ RecordIds = UsableIds
            /\ SeqRange(roots) \subseteq UsableIds
            /\ \A k \in 1..Len(span_records) :
                  SeqRange(span_records[k].children_ids) \subseteq UsableIds
            /\ spans = <<>> => span_records = <<>> /\ roots = <<>>

\* A span without spanId whose parentSpanId names the first span, between
\* two usable spans: two records, the first without a child from it.
C22_Witness ==
    /\ BuildDone
    /\ Len(spans) = 3
    /\ Usable(spans[1]) /\ ~Usable(spans[2]) /\ Usable(spans[3])
    /\ SpanNodeId(spans[1]) = NodeId("A", 0)
    /\ SpanNodeId(spans[3]) = NodeId("B", 0)
    /\ spans[2].segmentId = Some("A")
    /\ Len(span_records) = 2
    /\ span_records[1].children_ids = <<>>

\* C23: in the breadth-first traversal of build each node identifier is
\* dequeued and given a depth at most once, whatever the raw span list: the
\* identifier about to be dequeued has no depth yet.
C23_VisitedOnce ==
    (bpc = "bfs" /\ queue # <<>>) => ~DictHas(depths, queue[1][1])

\* The part of C23 the code keeps: lists with pairwise distinct identifiers.
C23_VisitedOnceDistinct ==
    (/\ bpc = "bfs"
     /\ queue # <<>>
     /\ \A i, j \in UsableIdx : i # j => SpanNodeId(spans[i]) # SpanNodeId(spans[j]))
    => ~DictHas(depths, queue[1][1])

\* C24: every identifier of the returned root list is the node identifier
\* of a returned record of depth 0, and the root list repeats no
\* identifier, whatever the raw span list.
C24_RootsAtDepthZero ==
    BuildDone =>
        /\ \A r \in 1..Len(roots) :
              \E k \in 1..Len(span_records) :
                  /\ span_records[k].node_id = roots[r]
                  /\ span_records[k].depth = 0
        /\ \A i, j \in 1..Len(roots) : i # j => roots[i] # roots[j]

\* The part of C24 the code keeps: lists with pairwise distinct identifiers.
C24_RootsAtDepthZeroDistinct ==
    (/\ BuildDone
     /\ \A i, j \in UsableIdx : i # j => SpanNodeId(spans[i]) # SpanNodeId(spans[j]))
    => /\ \A r \in 1..Len(roots) :
              \E k \in 1..Len(span_records) :
                  /\ span_records[k].node_id = roots[r]
                  /\ span_records[k].depth = 0
       /\ \A i, j \in 1..Len(roots) : i # j => roots[i] # roots[j]

DistinctIds ==
    \A i, j \in UsableIdx : i # j => SpanNodeId(spans[i]) # SpanNodeId(spans[j])

\* Walking `fuel` + 1 parent links upwards from node `id` meets no span that
\* is parentless or whose parent is missing from the list: with distinct
\* identifiers and fuel = Len(spans), `id` is on a cycle or below one.
RECURSIVE UnderCycle(_, _)
UnderCycle(id, fuel) ==
    LET k == CHOOSE k \in UsableIdx : SpanNodeId(spans[k]) = id
        par == RuleParent(spans[k])
    IN  IF par = None \/ Val(par) \notin UsableIds THEN FALSE
        ELSE IF fuel = 0 THEN TRUE
        ELSE UnderCycle(Val(par), fuel - 1)

CycleIds == {id \in UsableIds : UnderCycle(id, Len(spans))}

\* C25: with pairwise distinct node identifiers, the nodes on a cycle of
\* parent links and the nodes below them get no depth from the traversal,
\* are no roots and are returned with depth 0; every returned record has a
\* depth of at least 0.
C25_CycleUnvisited ==
    BuildDone =>
        /\ \A r \in 1..Len(span_records) : span_records[r].depth >= 0
        /\ DistinctIds =>
              /\ \A id \in CycleIds :
                    /\ ~DictHas(depths, id)
                    /\ id \notin SeqRange(roots)
                    /\ \A r \in 1..Len(span_records) :
                          span_records[r].node_id = id => span_records[r].depth = 0
              /\ \A id \in UsableIds \ CycleIds : DictHas(depths, id)

\* A:0 and A:1 naming each other as parent and B:0 below A:1: three records
\* of depth 0 and an empty root list.
C25_Witness ==
    /\ BuildDone
    /\ DistinctIds
    /\ Len(span_records) = 3
    /\ CycleIds = {NodeId("A", 0), NodeId("A", 1), NodeId("B", 0)}
    /\ \E k \in UsableIdx :
          /\ SpanNodeId(spans[k]) = NodeId("B", 0)
          /\ RuleParent(spans[k]) = Some(NodeId("A", 1))
    /\ roots = <<>>
    /\ \A r \in 1..3 : span_records[r].depth = 0

\* C26: in one collect run discovery is called once and has returned before
\* any fetch is dispatched; one fetch is dispatched per discovered summary,
\* and each is started once and ended once, none being dispatched again.
C26_DiscoverOnceFetchOnce ==
    [][/\ dpc \in {"returned", "raised"} => UNCHANGED discoverVars
       /\ dpc # "returned" => futures' = <<>>
       /\ (futures = <<>> /\ futures' # <<>>) =>
             /\ Len(futures') = Len(Val(dret)[1])
             /\ \A i \in 1..Len(futures') :
                   /\ futures'[i].summary = Val(dret)[1][i]
                   /\ futures'[i].state = "pending"
       /\ futures # <<>> =>
             /\ Len(futures') = Len(futures)
             /\ \A i \in 1..Len(futures) :
                   /\ futures'[i].summary = futures[i].summary
                   /\ futures'[i].state # futures[i].state =>
                         <<futures[i].state, futures'[i].state>>
                            \in {<<"pending", "running">>, <<"running", "done">>}]_vars

\* Discovery took two page queries and returned two summaries; both were
\* fetched and the artifact written.
C26_Witness ==
    /\ cpc = "done"
    /\ Len(queries) = 2
    /\ Len(futures) = 2
    /\ AllFetched
    /\ FailedSet # {}

\* C27: the hierarchy of a trace is built on the worker that fetched it:
\* what a finished fetch hands to the coordinator is the reconstructed
\* trace, every element carrying its node identifier, children and depth,
\* and the coordinator's step only stores what it was handed.
C27_BuildOnWorker ==
    \A i \in 1..Len(futures) :
        (futures[i].state = "done" /\ ~Val(futures[i].outcome).exc) =>
            \A k \in 1..Len(Val(futures[i].outcome).spans) :
                {"node_id", "children_ids", "depth"}
                    \subseteq DOMAIN Val(futures[i].outcome).spans[k]

IndexPermutations(n) ==
    {p \in [1..n -> 1..n] : \A i, j \in 1..n : i # j => p[i] # p[j]}

\* What a build result says of each node, whatever the order of its lists.
ResultView(recs, rts) ==
    [nodes |-> {[node_id |-> recs[k].node_id,
                 parent_node_id |-> recs[k].parent_node_id,
                 depth |-> recs[k].depth,
                 children |-> SeqRange(recs[k].children_ids)] : k \in 1..Len(recs)},
     roots |-> SeqRange(rts)]

\* C28: for a raw span list with pairwise distinct node identifiers, every
\* permutation of the list gives each node the same parent_node_id, depth
\* and set of children, and gives the same set of roots.
C28_OrderInvariant ==
    (BuildDone /\ DistinctIds) =>
        \A p \in IndexPermutations(Len(spans)) :
            LET r == BuildSpanRecords([k \in 1..Len(spans) |-> BuildInput[p[k]]])
            IN  ResultView(r.span_records, r.roots) = ResultView(span_records, roots)

\* A:0 and B:0 arriving before their parent A:1: both are its children, at
\* depth 1 under the root A:1.
C28_Witness ==
    /\ BuildDone
    /\ DistinctIds
    /\ Len(spans) = 3
    /\ UsableIdx = {1, 2, 3}
    /\ SpanNodeId(spans[1]) = NodeId("A", 0)
    /\ SpanNodeId(spans[2]) = NodeId("B", 0)
    /\ SpanNodeId(spans[3]) = NodeId("A", 1)
    /\ roots = <<NodeId("A", 1)>>
    /\ span_records[3].children_ids = <<NodeId("A", 0), NodeId("B", 0)>>
    /\ span_records[1].depth = 1
    /\ span_records[2].depth = 1

\* C29: on a collector configured with 0 or fewer attempts, a query call
\* sends no request and returns an empty dict without an error; discovery
\* then returns no summary, and collect ends with the NoSummaries error, not
\* with the error of a failed query, dispatching no fetch and writing
\* nothing.
C29_NoAttemptsNoSummaries ==
    max_retries <= 0 =>
        /\ posts = <<>>
        /\ waits = <<>>
        /\ perr = None
        /\ ppc = "returned" => pret = Some(EmptyDict)
        /\ dpc # "raised"
        /\ summaries = <<>>
        /\ dpc = "returned" => Val(dret) = <<<<>>, 0>>
        /\ futures = <<>>
        /\ artifact = None
        /\ cerr \in {None, Some("NoSummaries")}
        /\ CollectEnded => cpc = "raised" /\ cerr = Some("NoSummaries")

\* max_retries = 0 against a backend holding two traces: one page query
\* was made, no request sent, and collect ended with NoSummaries.
C29_Witness ==
    /\ max_retries = 0
    /\ Cardinality(BackendIds(backend)) = 2
    /\ Len(queries) = 1
    /\ posts = <<>>
    /\ dpc = "returned"
    /\ cpc = "raised"
    /\ cerr = Some("NoSummaries")

\* floor(N/s) + 1 for a backend of N summaries and effective page size s.
PageQueryBound == Len(backend) \div page_size + 1

\* C30: discover ends against every finite backend, full pages of already
\* seen identifiers included, and issues at most floor(N/s) + 1 page
\* queries, where N is the number of summaries the backend holds and s the
\* effective page size.
C30_DiscoverTerminates ==
    /\ [](Len(queries) <= PageQueryBound)
    /\ <>DiscoverEnded

\* A backend of four entries naming one trace, read in pages of two without
\* limit: the second page is full and holds only a seen identifier, the
\* third is empty, and the call returned after floor(4/2) + 1 queries.
C30_Witness ==
    /\ dpc = "returned"
    /\ limit = 0
    /\ page_size = 2
    /\ Len(backend) = 4
    /\ \A i \in 1..4 : backend[i] = Entry(<<"t1">>)
    /\ Len(summaries) = 1
    /\ Len(queries) = PageQueryBound

====
